---- MODULE Spec2Model ----
(***************************************************************************)
(* Model of src/Hardware/Buzzer.cpp (PanelDueFirmware): the piezo sounder  *)
(* on PWM channel 0 and the backlight on PWM channel 1.                    *)
(*                                                                         *)
(* Two execution contexts: the main context calls Init, Beep, Noisy and    *)
(* SetBacklight one after the other; the tick ISR calls Tick and may       *)
(* preempt the main context between any two of its statements.  The main   *)
(* context's position is pc; Tick runs to completion (an ISR is not        *)
(* preempted by the main context).                                         *)
(***************************************************************************)
EXTENDS Integers, Sequences, FiniteSets, TLC

VARIABLES
    IS_ER,                              \* build flag (#if IS_ER), fixed per behaviour
    boardTypePin,                       \* electrical level at PB13 (TRUE = high)
    initDone,                           \* Init() has returned
    beepTicksToGo,                      \* static uint32_t beepTicksToGo
    inBuzzer,                           \* static bool inBuzzer
    buzzer_pwm_channel_instance,        \* [ul_period, ul_duty] of the channel-0 struct
    backlight_pwm_channel_instance,     \* [ul_period, ul_duty] of the channel-1 struct
    PWM_CLKA,                           \* clock A frequency set by pwm_init
    PWM_CH,                             \* PWM->PWM_CH_NUM[0..1] and the channel enable bits
    pins,                               \* PIOB configuration of PB0, PB1, PB5, PB13
    pc,                                 \* main context: next statement to execute
    args,                               \* main context: parameters and locals of the running call
    lastOp,                             \* observer: "Init" right after Init returned, "run" after any later step, "tick"/"tock" after an observed tick
    call,                               \* observer: arguments of the running/last Beep call
    snap,                               \* observer: {tone state a running Beep call must preserve}
    tone,                               \* observer: the tone started by the last accepted Beep
    bl                                  \* observer: the last completed SetBacklight

vars == <<IS_ER, boardTypePin, initDone, beepTicksToGo, inBuzzer,
          buzzer_pwm_channel_instance, backlight_pwm_channel_instance,
          PWM_CLKA, PWM_CH, pins, pc, args, lastOp, call, snap, tone, bl>>

(***************************************************************************)
(* Program constants                                                       *)
(***************************************************************************)
pwmClockFrequency == 2000000

\* Configuration.hpp; volumeTable[MaxVolume] has five initialisers
MaxVolume == 5

\* Configuration.hpp (not part of the sources at hand); the brightness scale
MaxBrightness == 100

\* Mutant: a table entry above 100 parts in 200
volumeTable_TooLoud == <<3, 9, 20, 40, 120>>

volumeTable == <<3, 9, 20, 40, 80>>

\* uint16_t deadTime: values are kept modulo 2^16
U16 == 65536

backlightPwmFrequency == IF IS_ER THEN 20000 ELSE 300

backlightPeriod == pwmClockFrequency \div backlightPwmFrequency

\* minPwm and maxPwm exist in IS_ER builds only, where backlightPeriod = 100 and the
\* float expressions truncate to 56 and 78, the values of the integer forms below.
\* (uint32_t)((float)backlightPeriod * (3.3 - 1.45)/3.3): truncation of period*1.85/3.3
minPwm == (backlightPeriod * 185) \div 330

\* (uint32_t)((float)backlightPeriod * (3.3 - 0.7)/3.3): truncation of period*2.6/3.3
maxPwm == (backlightPeriod * 260) \div 330

(***************************************************************************)
(* Bounds of the model                                                     *)
(***************************************************************************)
MaxMs == 2              \* longest duration passed to Beep
ExtraVolume == 1        \* volumes up to MaxVolume + ExtraVolume are passed to Beep
MaxSuppressed == 2      \* the observer counts suppressed ticks up to this number
PeriodSplit == 1415     \* PeriodSplit^2 >= pwmClockFrequency, see FrequencySample

Frequencies == {440, 880}
\* one frequency whose dead time at volume 2 needs more than 16 bits, one whose
\* dead time fits
SequencerFrequencies == {13, 440}
Durations == 0..MaxMs
Volumes == {0, 2, MaxVolume} \cup (MaxVolume + 1)..(MaxVolume + ExtraVolume)
Brightnesses == {0, MaxBrightness}

\* Every value pwmClockFrequency \div f takes for f in 1..pwmClockFrequency is taken
\* for some f of this set: periods above PeriodSplit come from f <= PeriodSplit, and
\* a period p <= PeriodSplit that occurs at all occurs at f = pwmClockFrequency \div p.
FrequencySample ==
    (1..PeriodSplit) \cup {pwmClockFrequency \div p : p \in 1..PeriodSplit}

\* What a read past the end of volumeTable may return (whatever follows it in memory)
OutOfBoundsWords == {0, 1000}

Min(a, b) == IF a < b THEN a ELSE b

(***************************************************************************)
(* The PWM and PIO driver calls the module makes                           *)
(***************************************************************************)
pwm_channel_disable(ch, n) == [ch EXCEPT ![n].ena = FALSE]

pwm_channel_enable(ch, n) == [ch EXCEPT ![n].ena = TRUE]

\* Writes the channel mode (dead-time generator off: b_deadtime_generator is not
\* set in either instance), the duty and the period registers from the struct.
pwm_channel_init(ch, n, inst) ==
    [ch EXCEPT ![n].CPRD = inst.ul_period, ![n].CDTY = inst.ul_duty, ![n].DTE = FALSE]

pio_configure(p, mode, mask) == [x \in DOMAIN p |-> IF x \in mask THEN mode ELSE p[x]]

NoArgs == [frequency |-> 0, ms |-> 0, volume |-> 0, period |-> 0, onTime |-> 0,
           deadTime |-> 0, brightness |-> 0, read |-> FALSE]

ResetChannel(e) == [CPRD |-> 0, CDTY |-> 0, DTE |-> FALSE, DT |-> <<0, 0>>,
                    DTUPD |-> <<0, 0>>, ena |-> e]

NoTone == [valid |-> FALSE, f |-> 0, d |-> 0, v |-> 0, eff |-> 0, supp |-> 0,
           disturbed |-> FALSE]

NoCall == [volArg |-> 0, accepted |-> FALSE, flagged |-> FALSE, supp |-> 0]

NoBl == [valid |-> FALSE, b |-> 0, linear |-> FALSE]

\* The state of the tone sequencer and of the buzzer hardware
ToneState == [beepTicksToGo |-> beepTicksToGo, inBuzzer |-> inBuzzer,
              inst |-> buzzer_pwm_channel_instance, ch0 |-> PWM_CH[0],
              PB0 |-> pins.PB0, PB5 |-> pins.PB5]

\* Mutant: inBuzzer initialised to false at line 83
Init_FlagClear ==
    /\ IS_ER \in BOOLEAN
    /\ boardTypePin \in (IF IS_ER THEN BOOLEAN ELSE {FALSE})
    /\ initDone = FALSE
    /\ beepTicksToGo = 0
    /\ inBuzzer = FALSE
    /\ buzzer_pwm_channel_instance = [ul_period |-> 0, ul_duty |-> 0]
    /\ backlight_pwm_channel_instance = [ul_period |-> 0, ul_duty |-> 0]
    /\ PWM_CLKA = 0
    /\ \E e0 \in BOOLEAN, e1 \in BOOLEAN :
          PWM_CH = [n \in 0..1 |-> ResetChannel(IF n = 0 THEN e0 ELSE e1)]
    /\ \E m0 \in {"INPUT", "PERIPH_A", "OUTPUT_0"}, m5 \in {"INPUT", "PERIPH_B", "OUTPUT_0"} :
          pins = [PB0 |-> m0, PB1 |-> "INPUT", PB5 |-> m5, PB13 |-> "INPUT"]
    /\ pc = "idle"
    /\ args = NoArgs
    /\ lastOp = "none"
    /\ call = NoCall
    /\ snap = {}
    /\ tone = NoTone
    /\ bl = NoBl

(***************************************************************************)
(* The state after construction (static initialisers, lines 42-83); the    *)
(* channel enables and the piezo pins are whatever was left before Init.   *)
(***************************************************************************)
Init ==
    /\ IS_ER \in BOOLEAN
    /\ boardTypePin \in (IF IS_ER THEN BOOLEAN ELSE {FALSE})
    /\ initDone = FALSE
    /\ beepTicksToGo = 0
    /\ inBuzzer = TRUE
    /\ buzzer_pwm_channel_instance = [ul_period |-> 0, ul_duty |-> 0]
    /\ backlight_pwm_channel_instance = [ul_period |-> 0, ul_duty |-> 0]
    /\ PWM_CLKA = 0
    /\ \E e0 \in BOOLEAN, e1 \in BOOLEAN :
          PWM_CH = [n \in 0..1 |-> ResetChannel(IF n = 0 THEN e0 ELSE e1)]
    /\ \E m0 \in {"INPUT", "PERIPH_A", "OUTPUT_0"}, m5 \in {"INPUT", "PERIPH_B", "OUTPUT_0"} :
          pins = [PB0 |-> m0, PB1 |-> "INPUT", PB5 |-> m5, PB13 |-> "INPUT"]
    /\ pc = "idle"
    /\ args = NoArgs
    /\ lastOp = "none"
    /\ call = NoCall
    /\ snap = {}
    /\ tone = NoTone
    /\ bl = NoBl

\* Mutant: line 101 forgotten, inBuzzer keeps its initial value
BuzzerInit_FlagLeftSet ==
    /\ pc = "idle"
    /\ ~initDone
    /\ PWM_CH' = pwm_channel_disable(pwm_channel_disable(PWM_CH, 0), 1)
    /\ PWM_CLKA' = pwmClockFrequency
    /\ pins' = [pio_configure(pio_configure(pins, "PERIPH_A", {"PB1"}),
                              "OUTPUT_0", {"PB0", "PB5"})
                  EXCEPT !.PB13 = IF IS_ER THEN "INPUT_PULLUP" ELSE @]
    /\ beepTicksToGo' = 0
    /\ initDone' = TRUE
    /\ lastOp' = "Init"
    /\ UNCHANGED <<IS_ER, boardTypePin, inBuzzer, buzzer_pwm_channel_instance,
                   backlight_pwm_channel_instance, pc, args, call, snap, tone, bl>>

(***************************************************************************)
(* Buzzer::Init, lines 86-105.  inBuzzer is true until line 101 and        *)
(* beepTicksToGo is 0 from line 100 on, so a Tick that preempts Init does  *)
(* nothing: the call is one step.                                          *)
(***************************************************************************)
BuzzerInit ==
    /\ pc = "idle"
    /\ ~initDone
    /\ PWM_CH' = pwm_channel_disable(pwm_channel_disable(PWM_CH, 0), 1)
    /\ PWM_CLKA' = pwmClockFrequency
    /\ pins' = [pio_configure(pio_configure(pins, "PERIPH_A", {"PB1"}),
                              "OUTPUT_0", {"PB0", "PB5"})
                  EXCEPT !.PB13 = IF IS_ER THEN "INPUT_PULLUP" ELSE @]
    /\ beepTicksToGo' = 0
    /\ inBuzzer' = FALSE
    /\ initDone' = TRUE
    /\ lastOp' = "Init"
    /\ UNCHANGED <<IS_ER, boardTypePin, buzzer_pwm_channel_instance,
                   backlight_pwm_channel_instance, pc, args, call, snap, tone, bl>>

(***************************************************************************)
(* Buzzer::Beep, lines 110-140                                             *)
(***************************************************************************)
\* Mutant: the volume test of line 112 dropped
VolumeRequested_Always(volume) == TRUE

\* line 112: the body runs only for a non-zero volume
VolumeRequested(volume) == volume # 0

\* Mutant: the clamp of lines 114-117 dropped
ClampVolume_None(volume) == volume

\* lines 114-117
ClampVolume(volume) == IF volume > MaxVolume THEN MaxVolume ELSE volume

\* Mutant: the test of line 120 dropped, every request reprograms the channel
ToneIdle_Always == TRUE

\* line 120
ToneIdle == beepTicksToGo = 0

\* line 125: volumeTable[index], index counted from 0 as in the source
volumeTableRead(index) ==
    IF index \in 0..(MaxVolume - 1) THEN {volumeTable[index + 1]} ELSE OutOfBoundsWords

\* line 122 (uint32_t; frequency # 0 is the caller's obligation)
Period(frequency) == pwmClockFrequency \div frequency

\* Mutant: the volume table taken as percent of the period
OnTime_Percent(period, entry) == (period * entry) \div 100

\* line 125 (uint32_t; period * entry stays below 2^31 for every input modelled)
OnTime(period, entry) == (period * entry) \div 200

\* Mutant: the dead time held in a uint8_t
DeadTime_U8(period, onTime) == (period \div 2 - onTime) % 256

\* line 126: uint32_t difference stored in a uint16_t
DeadTime(period, onTime) == (period \div 2 - onTime) % U16

\* lines 131-132: (deadTime << 16) | deadTime as <<high half, low half>> of the register
DeadTimeWord(deadTime) == <<deadTime % U16, deadTime % U16>>

\* The call: parameters are bound and lines 112-117, which touch only the
\* parameters, are executed.
Beep(frequency, ms, volume) ==
    /\ pc = "idle"
    /\ initDone
    /\ lastOp' = "run"
    /\ call' = [NoCall EXCEPT !.volArg = volume]
    /\ snap' = {ToneState}
    /\ tone' = IF tone.valid THEN [tone EXCEPT !.disturbed = TRUE] ELSE tone
    /\ IF VolumeRequested(volume)
          THEN /\ pc' = "l119"
               /\ args' = [NoArgs EXCEPT !.frequency = frequency, !.ms = ms,
                                         !.volume = ClampVolume(volume)]
          ELSE /\ pc' = "idle"
               /\ args' = NoArgs
    /\ UNCHANGED <<IS_ER, boardTypePin, initDone, beepTicksToGo, inBuzzer,
                   buzzer_pwm_channel_instance, backlight_pwm_channel_instance,
                   PWM_CLKA, PWM_CH, pins, bl>>

\* line 119
BeepL119 ==
    /\ pc = "l119"
    /\ inBuzzer' = TRUE
    /\ pc' = "l120"
    /\ lastOp' = "run"
    /\ UNCHANGED <<IS_ER, boardTypePin, initDone, beepTicksToGo,
                   buzzer_pwm_channel_instance, backlight_pwm_channel_instance,
                   PWM_CLKA, PWM_CH, pins, args, call, snap, tone, bl>>

\* line 120
BeepL120 ==
    /\ pc = "l120"
    /\ pc' = IF ToneIdle THEN "l122" ELSE "l138"
    \* the observers note whether a tone was running at this test
    /\ call' = [call EXCEPT !.accepted = (beepTicksToGo = 0)]
    /\ snap' = IF beepTicksToGo = 0 THEN {} ELSE snap
    /\ tone' = IF beepTicksToGo = 0 THEN NoTone ELSE tone
    /\ lastOp' = "run"
    /\ UNCHANGED <<IS_ER, boardTypePin, initDone, beepTicksToGo, inBuzzer,
                   buzzer_pwm_channel_instance, backlight_pwm_channel_instance,
                   PWM_CLKA, PWM_CH, pins, args, bl>>

\* lines 122-126: the three locals
BeepL122 ==
    /\ pc = "l122"
    /\ \E entry \in volumeTableRead(args.volume - 1) :
          LET period == Period(args.frequency)
              onTime == OnTime(period, entry)
          IN  args' = [args EXCEPT !.period = period, !.onTime = onTime,
                                   !.deadTime = DeadTime(period, onTime)]
    /\ pc' = "l127"
    /\ lastOp' = "run"
    /\ UNCHANGED <<IS_ER, boardTypePin, initDone, beepTicksToGo, inBuzzer,
                   buzzer_pwm_channel_instance, backlight_pwm_channel_instance,
                   PWM_CLKA, PWM_CH, pins, call, snap, tone, bl>>

\* line 127
BeepL127 ==
    /\ pc = "l127"
    /\ buzzer_pwm_channel_instance' =
          [buzzer_pwm_channel_instance EXCEPT !.ul_period = args.period]
    /\ pc' = "l128"
    /\ lastOp' = "run"
    /\ UNCHANGED <<IS_ER, boardTypePin, initDone, beepTicksToGo, inBuzzer,
                   backlight_pwm_channel_instance,
                   PWM_CLKA, PWM_CH, pins, args, call, snap, tone, bl>>

\* line 128
BeepL128 ==
    /\ pc = "l128"
    /\ buzzer_pwm_channel_instance' =
          [buzzer_pwm_channel_instance EXCEPT !.ul_duty = args.period \div 2]
    /\ pc' = "l129"
    /\ lastOp' = "run"
    /\ UNCHANGED <<IS_ER, boardTypePin, initDone, beepTicksToGo, inBuzzer,
                   backlight_pwm_channel_instance,
                   PWM_CLKA, PWM_CH, pins, args, call, snap, tone, bl>>

\* The statements of lines 129-135, each a write to the PWM channels or to the pins
BeepHardware(at, next, channels, pio) ==
    /\ pc = at
    /\ PWM_CH' = channels
    /\ pins' = pio
    /\ pc' = next
    /\ lastOp' = "run"
    /\ UNCHANGED <<IS_ER, boardTypePin, initDone, beepTicksToGo, inBuzzer,
                   buzzer_pwm_channel_instance, backlight_pwm_channel_instance,
                   PWM_CLKA, args, call, snap, tone, bl>>

\* line 129
BeepL129 ==
    BeepHardware("l129", "l130",
                 pwm_channel_init(PWM_CH, 0, buzzer_pwm_channel_instance), pins)

\* line 130
BeepL130 ==
    BeepHardware("l130", "l131", [PWM_CH EXCEPT ![0].DTE = TRUE], pins)

\* line 131
BeepL131 ==
    BeepHardware("l131", "l132",
                 [PWM_CH EXCEPT ![0].DT = DeadTimeWord(args.deadTime)], pins)

\* line 132
BeepL132 ==
    BeepHardware("l132", "l133",
                 [PWM_CH EXCEPT ![0].DTUPD = DeadTimeWord(args.deadTime)], pins)

\* line 133
BeepL133 ==
    BeepHardware("l133", "l134", pwm_channel_enable(PWM_CH, 0), pins)

\* line 134
BeepL134 ==
    BeepHardware("l134", "l135", PWM_CH, pio_configure(pins, "PERIPH_A", {"PB0"}))

\* line 135
BeepL135 ==
    BeepHardware("l135", "l136", PWM_CH, pio_configure(pins, "PERIPH_B", {"PB5"}))

\* line 136
BeepL136 ==
    /\ pc = "l136"
    /\ beepTicksToGo' = args.ms
    /\ pc' = "l138"
    /\ lastOp' = "run"
    /\ UNCHANGED <<IS_ER, boardTypePin, initDone, inBuzzer,
                   buzzer_pwm_channel_instance, backlight_pwm_channel_instance,
                   PWM_CLKA, PWM_CH, pins, args, call, snap, tone, bl>>

\* Mutant: line 138 forgotten, inBuzzer stays set after the return
BeepL138_FlagLeftSet ==
    /\ pc = "l138"
    /\ pc' = "idle"
    /\ args' = NoArgs
    /\ tone' = IF call.accepted
                  THEN [valid |-> TRUE, f |-> args.frequency, d |-> args.ms,
                        v |-> call.volArg, eff |-> 0, supp |-> 0, disturbed |-> FALSE]
                  ELSE tone
    /\ lastOp' = "run"
    /\ UNCHANGED <<IS_ER, boardTypePin, initDone, beepTicksToGo, inBuzzer,
                   buzzer_pwm_channel_instance, backlight_pwm_channel_instance,
                   PWM_CLKA, PWM_CH, pins, call, snap, bl>>

\* line 138 and the return
BeepL138 ==
    /\ pc = "l138"
    /\ inBuzzer' = FALSE
    /\ pc' = "idle"
    /\ args' = NoArgs
    /\ tone' = IF call.accepted
                  THEN [valid |-> TRUE, f |-> args.frequency, d |-> args.ms,
                        v |-> call.volArg, eff |-> 0, supp |-> 0, disturbed |-> FALSE]
                  ELSE tone
    /\ lastOp' = "run"
    /\ UNCHANGED <<IS_ER, boardTypePin, initDone, beepTicksToGo,
                   buzzer_pwm_channel_instance, backlight_pwm_channel_instance,
                   PWM_CLKA, PWM_CH, pins, call, snap, bl>>

(***************************************************************************)
(* Buzzer::Tick, lines 143-155: the tick ISR, one step                     *)
(***************************************************************************)
\* Mutant: the tick stops one short of zero
TickActs_OffByOne == ~inBuzzer /\ beepTicksToGo > 1

\* Mutant: the tick ignores inBuzzer
TickActs_IgnoresFlag == beepTicksToGo # 0

\* Mutant: the test for zero forgotten
TickActs_NoZeroTest == ~inBuzzer

\* line 145
TickActs == ~inBuzzer /\ beepTicksToGo # 0

TickStep(observed) ==
    /\ IF TickActs
          THEN /\ beepTicksToGo' = beepTicksToGo - 1
               /\ IF beepTicksToGo' = 0
                     THEN /\ PWM_CH' = pwm_channel_disable(PWM_CH, 0)
                          /\ pins' = pio_configure(pins, "OUTPUT_0", {"PB0", "PB5"})
                     ELSE UNCHANGED <<PWM_CH, pins>>
          ELSE UNCHANGED <<beepTicksToGo, PWM_CH, pins>>
    /\ UNCHANGED <<inBuzzer, buzzer_pwm_channel_instance>>
    /\ lastOp' = IF observed THEN (IF lastOp = "tick" THEN "tock" ELSE "tick")
                  ELSE IF initDone THEN "run" ELSE lastOp
    \* the observer counts the invocations after the tone's Beep returned, apart
    \* those that found inBuzzer set, and stops after tone.d + 1 of them
    /\ tone' = IF ~tone.valid THEN tone
               ELSE IF inBuzzer
                       THEN [tone EXCEPT !.supp = Min(@ + 1, MaxSuppressed)]
                       ELSE IF tone.eff = tone.d THEN NoTone
                            ELSE [tone EXCEPT !.eff = @ + 1]
    \* a Beep call in progress must preserve what Tick leaves
    /\ snap' = IF snap = {} \/ pc = "idle" THEN {}
               ELSE IF TickActs THEN {ToneState'} ELSE snap
    \* an observed tick within a Beep call: was an invocation made with inBuzzer
    \* set, and how many of them were skipped with beepTicksToGo non-zero
    /\ call' = IF pc = "idle" THEN NoCall
               ELSE IF ~observed THEN call
               ELSE [call EXCEPT
                       !.flagged = @ \/ inBuzzer,
                       !.supp = IF inBuzzer /\ beepTicksToGo # 0
                                   THEN Min(@ + 1, MaxSuppressed) ELSE @]
    /\ UNCHANGED <<IS_ER, boardTypePin, initDone, backlight_pwm_channel_instance,
                   PWM_CLKA, pc, args, bl>>

\* The tick ISR as the specifications of the whole module take it
Tick == TickStep(FALSE)

\* The tick ISR with every invocation marked in lastOp, so that no invocation
\* is a stuttering step
TickObserved == TickStep(TRUE)

(***************************************************************************)
(* Buzzer::Noisy, lines 158-161                                            *)
(***************************************************************************)
\* line 160: the value Noisy() returns
Noisy == beepTicksToGo # 0

\* The call reads beepTicksToGo and writes nothing
NoisyCall ==
    /\ pc = "idle"
    /\ initDone
    /\ lastOp' = "run"
    /\ call' = NoCall
    /\ snap' = {}
    /\ UNCHANGED <<IS_ER, boardTypePin, initDone, beepTicksToGo, inBuzzer,
                   buzzer_pwm_channel_instance, backlight_pwm_channel_instance,
                   PWM_CLKA, PWM_CH, pins, pc, args, tone, bl>>

(***************************************************************************)
(* Buzzer::SetBacklight, lines 165-177                                     *)
(***************************************************************************)
\* Mutant: the inversion forgotten
LinearDuty_NotInverted(brightness) == ((backlightPeriod - 1) * brightness) \div MaxBrightness

\* lines 170 and 173
LinearDuty(brightness) ==
    ((backlightPeriod - 1) * (MaxBrightness - brightness)) \div MaxBrightness

\* Mutant: the division by MaxBrightness forgotten
ClampedDuty_Unscaled(brightness) ==
    minPwm + (maxPwm - minPwm) * (MaxBrightness - brightness)

\* line 171
ClampedDuty(brightness) ==
    minPwm + ((maxPwm - minPwm) * (MaxBrightness - brightness)) \div MaxBrightness

\* Mutant: the two inverter formulas exchanged
BacklightDuty_Exchanged(read, brightness) ==
    IF IS_ER
       THEN IF read THEN minPwm + ((maxPwm - minPwm) * (MaxBrightness - brightness)) \div MaxBrightness
                    ELSE ((backlightPeriod - 1) * (MaxBrightness - brightness)) \div MaxBrightness
       ELSE ((backlightPeriod - 1) * (MaxBrightness - brightness)) \div MaxBrightness

\* lines 168-174: read is the value of boardTypePort.read()
BacklightDuty(read, brightness) ==
    IF IS_ER
       THEN IF read THEN LinearDuty(brightness) ELSE ClampedDuty(brightness)
       ELSE LinearDuty(brightness)

\* The call: the parameter is bound
SetBacklight(brightness) ==
    /\ pc = "idle"
    /\ initDone
    /\ args' = [NoArgs EXCEPT !.brightness = brightness]
    /\ pc' = "l167"
    /\ lastOp' = "run"
    /\ call' = NoCall
    /\ snap' = {}
    /\ UNCHANGED <<IS_ER, boardTypePin, initDone, beepTicksToGo, inBuzzer,
                   buzzer_pwm_channel_instance, backlight_pwm_channel_instance,
                   PWM_CLKA, PWM_CH, pins, tone, bl>>

\* line 167
SetBacklightL167 ==
    /\ pc = "l167"
    /\ backlight_pwm_channel_instance' =
          [backlight_pwm_channel_instance EXCEPT !.ul_period = backlightPeriod]
    /\ pc' = "l169"
    /\ lastOp' = "run"
    /\ UNCHANGED <<IS_ER, boardTypePin, initDone, beepTicksToGo, inBuzzer,
                   buzzer_pwm_channel_instance, PWM_CLKA, PWM_CH, pins, args,
                   call, snap, tone, bl>>

\* lines 168-174: the pin is read here (IS_ER builds) and the duty is stored
SetBacklightL169 ==
    /\ pc = "l169"
    /\ LET read == IF IS_ER THEN boardTypePin ELSE TRUE
       IN  /\ args' = [args EXCEPT !.read = read]
           /\ backlight_pwm_channel_instance' =
                 [backlight_pwm_channel_instance
                    EXCEPT !.ul_duty = BacklightDuty(read, args.brightness)]
    /\ pc' = "l175"
    /\ lastOp' = "run"
    /\ UNCHANGED <<IS_ER, boardTypePin, initDone, beepTicksToGo, inBuzzer,
                   buzzer_pwm_channel_instance, PWM_CLKA, PWM_CH, pins,
                   call, snap, tone, bl>>

\* line 175
SetBacklightL175 ==
    /\ pc = "l175"
    /\ PWM_CH' = pwm_channel_init(PWM_CH, 1, backlight_pwm_channel_instance)
    /\ pc' = "l176"
    /\ lastOp' = "run"
    /\ UNCHANGED <<IS_ER, boardTypePin, initDone, beepTicksToGo, inBuzzer,
                   buzzer_pwm_channel_instance, backlight_pwm_channel_instance,
                   PWM_CLKA, pins, args, call, snap, tone, bl>>

\* Mutant: the wrong channel enabled
SetBacklightL176_Channel0 ==
    /\ pc = "l176"
    /\ PWM_CH' = pwm_channel_enable(PWM_CH, 0)
    /\ pc' = "idle"
    /\ args' = NoArgs
    /\ bl' = [valid |-> TRUE, b |-> args.brightness, linear |-> args.read]
    /\ lastOp' = "run"
    /\ UNCHANGED <<IS_ER, boardTypePin, initDone, beepTicksToGo, inBuzzer,
                   buzzer_pwm_channel_instance, backlight_pwm_channel_instance,
                   PWM_CLKA, pins, call, snap, tone>>

\* line 176 and the return
SetBacklightL176 ==
    /\ pc = "l176"
    /\ PWM_CH' = pwm_channel_enable(PWM_CH, 1)
    /\ pc' = "idle"
    /\ args' = NoArgs
    /\ bl' = [valid |-> TRUE, b |-> args.brightness, linear |-> args.read]
    /\ lastOp' = "run"
    /\ UNCHANGED <<IS_ER, boardTypePin, initDone, beepTicksToGo, inBuzzer,
                   buzzer_pwm_channel_instance, backlight_pwm_channel_instance,
                   PWM_CLKA, pins, call, snap, tone>>

(***************************************************************************)
(* The environment: the level at the board-type pin PB13 (IS_ER builds)    *)
(***************************************************************************)
PinChange ==
    /\ IS_ER
    /\ boardTypePin' = ~boardTypePin
    /\ UNCHANGED <<IS_ER, initDone, beepTicksToGo, inBuzzer,
                   buzzer_pwm_channel_instance, backlight_pwm_channel_instance,
                   PWM_CLKA, PWM_CH, pins, pc, args, lastOp, call, snap, tone, bl>>

(***************************************************************************)
(* Specifications                                                          *)
(***************************************************************************)
BeepBody ==
    \/ BeepL119 \/ BeepL120 \/ BeepL122 \/ BeepL127 \/ BeepL128 \/ BeepL129
    \/ BeepL130 \/ BeepL131 \/ BeepL132 \/ BeepL133 \/ BeepL134 \/ BeepL135
    \/ BeepL136 \/ BeepL138

SetBacklightBody ==
    SetBacklightL167 \/ SetBacklightL169 \/ SetBacklightL175 \/ SetBacklightL176

\* Both contexts, every interleaving
Next ==
    \/ BuzzerInit
    \/ \E f \in Frequencies, d \in Durations, v \in Volumes : Beep(f, d, v)
    \/ BeepBody
    \/ Tick
    \/ NoisyCall
    \/ \E b \in Brightnesses : SetBacklight(b)
    \/ SetBacklightBody
    \/ PinChange

Spec == Init /\ [][Next]_vars

\* The tone arithmetic: one Beep after Init, over every PWM period there is
InitTone == Init /\ ~IS_ER

NextTone ==
    \/ BuzzerInit
    \/ /\ lastOp = "Init"
       /\ \E f \in FrequencySample, v \in 1..(MaxVolume + ExtraVolume) : Beep(f, 1, v)
    \/ BeepBody

SpecTone == InitTone /\ [][NextTone]_vars

\* The tone sequencer alone, with every tick invocation visible.  The tick
\* interrupt is periodic, so it is invoked again and again, and a Beep call
\* that has started runs to its return.
NextSequencer ==
    \/ BuzzerInit
    \/ \E f \in SequencerFrequencies, d \in Durations, v \in Volumes : Beep(f, d, v)
    \/ BeepBody
    \/ TickObserved

SpecSequencer ==
    /\ InitTone
    /\ [][NextSequencer]_vars
    /\ WF_vars(TickObserved)
    /\ WF_vars(BeepBody)

\* The backlight mapping: SetBacklight calls over the whole brightness scale
NextBacklight ==
    \/ BuzzerInit
    \/ \E b \in 0..MaxBrightness : SetBacklight(b)
    \/ SetBacklightBody
    \/ PinChange

SpecBacklight == Init /\ [][NextBacklight]_vars

(***************************************************************************)
(* Properties                                                              *)
(***************************************************************************)
BeepLabels == {"l119", "l120", "l122", "l127", "l128", "l129", "l130", "l131",
               "l132", "l133", "l134", "l135", "l136", "l138"}

SetBacklightLabels == {"l167", "l169", "l175", "l176"}

\* What Beep(f, d, v) is documented to program: period, 50% duty and the dead
\* time period/2 - period*volumeTable[v-1]/200 on both outputs, channel enabled
ProgrammedChannel(f, v) ==
    LET period == pwmClockFrequency \div f
        dead == period \div 2 - (period * volumeTable[v]) \div 200
    IN  [CPRD |-> period, CDTY |-> period \div 2, DTE |-> TRUE, DT |-> <<dead, dead>>,
         DTUPD |-> <<dead, dead>>, ena |-> TRUE]

\* The tone state without the suppression flag
Frame(s) == [s EXCEPT !.inBuzzer = FALSE]

PiezoLow == pins.PB0 = "OUTPUT_0" /\ pins.PB5 = "OUTPUT_0"

\* A step of the tick ISR, where every invocation is marked (TickObserved)
TickFired == lastOp' \in {"tick", "tock"} /\ lastOp' # lastOp

\* The labels of Beep from the test at line 120 found the sequencer idle up to
\* the write of beepTicksToGo at line 136
HalfProgrammed == {"l122", "l127", "l128", "l129", "l130", "l131", "l132", "l133",
                   "l134", "l135", "l136"}

\* C1: after a Beep(f, d, v) with d > 0 and v > 0 that was accepted (the sequencer
\* was idle) has returned, and with no other Beep call since, Noisy() is true as
\* long as fewer than d Tick() calls were made and false from the d-th on.
C1_NoisyForExactlyDTicks ==
    (tone.valid /\ ~tone.disturbed /\ tone.d > 0 /\ tone.v > 0)
        => (Noisy <=> tone.eff + tone.supp < tone.d)

C1_Witness ==
    /\ tone.valid /\ ~tone.disturbed /\ tone.v > 0
    /\ tone.d = MaxMs /\ tone.eff + tone.supp = tone.d
    /\ ~Noisy

\* C2: a Beep call with a non-zero volume that finds a tone active at its test of
\* beepTicksToGo leaves beepTicksToGo, the stored period and duty, the channel-0
\* registers and enable bit and the piezo pins as they were: from the call to
\* its return they change only by what Tick did before the flag was set.
C2_RejectedBeepChangesNothing ==
    \A s \in snap : call.volArg # 0 => Frame(ToneState) = Frame(s)

C2_Witness ==
    /\ snap # {} /\ call.volArg # 0 /\ ~call.accepted
    /\ pc = "idle" /\ Noisy

\* C3 as claimed: the tone of an accepted Beep(f, d, v) ends on the d-th Tick()
\* invocation after its start, those made while a later, rejected Beep call is
\* executing included.
C3_EndsOnDthInvocation ==
    (tone.valid /\ tone.d > 0) => (Noisy <=> tone.eff + tone.supp < tone.d)

\* C3 amended: the tone ends on the d-th Tick() invocation that does not find
\* inBuzzer set (an invocation during a rejected Beep call's window is skipped
\* and postpones the end by one), and until then the channel keeps the period,
\* duty and dead time of the Beep that started it.
C3_EndsOnDthUnsuppressedTick ==
    tone.valid =>
        /\ Noisy <=> tone.eff < tone.d
        /\ Noisy => /\ PWM_CH[0] = ProgrammedChannel(tone.f, Min(tone.v, MaxVolume))
                    /\ pins.PB0 = "PERIPH_A" /\ pins.PB5 = "PERIPH_B"
        /\ (~Noisy /\ tone.d > 0) => (~PWM_CH[0].ena /\ PiezoLow)

C3_Witness ==
    /\ tone.valid /\ tone.disturbed /\ tone.supp > 0
    /\ tone.d = MaxMs /\ tone.eff = tone.d
    /\ ~Noisy /\ ~PWM_CH[0].ena

\* C4: whenever Init has run, no Beep call is in progress and Noisy() is false,
\* PWM channel 0 is disabled and both piezo pins are plain low outputs.
C4_IdleIsSilent ==
    (initDone /\ pc \notin BeepLabels /\ ~Noisy) => (~PWM_CH[0].ena /\ PiezoLow)

\* C5: Beep(f, d, 0) returns at once and leaves beepTicksToGo, inBuzzer, the
\* channel-0 struct and registers and the piezo pins as they were.
C5_ZeroVolumeIsNoOp ==
    \A s \in snap : call.volArg = 0 => (pc = "idle" /\ ToneState = s)

C5_Witness ==
    /\ snap # {} /\ call.volArg = 0 /\ lastOp = "run"
    /\ Noisy /\ PWM_CH[0].ena

\* C6: a Beep with volume above MaxVolume runs with volume MaxVolume: the table
\* is read inside 0..MaxVolume-1 only, and an accepted call leaves the state
\* Beep(f, d, MaxVolume) is documented to leave.
C6_VolumeClamped ==
    /\ pc \in BeepLabels =>
          /\ args.volume - 1 \in 0..(MaxVolume - 1)
          /\ call.volArg > MaxVolume => args.volume = MaxVolume
    /\ (tone.valid /\ tone.v > MaxVolume /\ tone.eff = 0) =>
          /\ PWM_CH[0] = ProgrammedChannel(tone.f, MaxVolume)
          /\ buzzer_pwm_channel_instance =
                [ul_period |-> pwmClockFrequency \div tone.f,
                 ul_duty |-> (pwmClockFrequency \div tone.f) \div 2]
          /\ pins.PB0 = "PERIPH_A" /\ pins.PB5 = "PERIPH_B"
          /\ beepTicksToGo = tone.d

C6_Witness ==
    /\ tone.valid /\ tone.v > MaxVolume /\ tone.eff = 0
    /\ pc = "idle" /\ Noisy

\* C7: right after Init returns both PWM channels are disabled, both piezo pins
\* are plain low outputs, beepTicksToGo is 0 and inBuzzer is false.
C7_AfterInit ==
    lastOp = "Init" =>
        /\ ~PWM_CH[0].ena /\ ~PWM_CH[1].ena
        /\ PiezoLow
        /\ beepTicksToGo = 0 /\ ~Noisy
        /\ ~inBuzzer

C7_Witness == lastOp = "Init" /\ initDone /\ pc = "idle"

\* C8 as claimed: for every volume 1..MaxVolume and every frequency
\* 1..pwmClockFrequency, onTime < period/2.
C8_OnTimeBelowHalfPeriod ==
    (pc \in BeepLabels \ {"l119", "l120", "l122"} /\ call.volArg \in 1..MaxVolume)
        => args.onTime < args.period \div 2

\* C8 amended: for every volume 1..MaxVolume and every frequency
\* 1..pwmClockFrequency, onTime <= period/2, so period/2 - onTime is never
\* negative; onTime < period/2 for every frequency up to pwmClockFrequency/6
\* (period >= 6), and onTime = period/2 when period is 1.
C8_OnTimeAtMostHalfPeriod ==
    (pc \in BeepLabels \ {"l119", "l120", "l122"} /\ call.volArg \in 1..MaxVolume)
        => /\ args.period = pwmClockFrequency \div args.frequency
           /\ args.onTime <= args.period \div 2
           /\ args.period \div 2 - args.onTime >= 0
           /\ args.frequency * 6 <= pwmClockFrequency => args.onTime < args.period \div 2
           /\ args.period = 1 => args.onTime = args.period \div 2

C8_Witness ==
    /\ pc = "l127" /\ call.volArg = MaxVolume
    /\ args.period = 5 /\ args.onTime = 2 /\ args.deadTime = 0

\* C9: the duty SetBacklight programs is inverted and spans the range: on the
\* linear path brightness 0 gives backlightPeriod - 1 and MaxBrightness gives 0,
\* on the clamped path 0 gives maxPwm and MaxBrightness gives minPwm; and of two
\* calls on the same path the one with the higher brightness programs a duty no
\* higher than the other's.
C9_BacklightInverted ==
    /\ (bl.valid /\ pc # "l176") =>
          /\ (bl.linear /\ bl.b = 0) => PWM_CH[1].CDTY = backlightPeriod - 1
          /\ (bl.linear /\ bl.b = MaxBrightness) => PWM_CH[1].CDTY = 0
          /\ (~bl.linear /\ bl.b = 0) => PWM_CH[1].CDTY = maxPwm
          /\ (~bl.linear /\ bl.b = MaxBrightness) => PWM_CH[1].CDTY = minPwm
    \* at line 175 the struct holds the new duty and the register the previous one
    /\ (pc = "l175" /\ bl.valid /\ bl.linear = args.read) =>
          /\ bl.b <= args.brightness =>
                backlight_pwm_channel_instance.ul_duty <= PWM_CH[1].CDTY
          /\ bl.b >= args.brightness =>
                backlight_pwm_channel_instance.ul_duty >= PWM_CH[1].CDTY

C9_Witness ==
    /\ pc = "l175" /\ bl.valid /\ ~bl.linear /\ ~args.read
    /\ bl.b = 0 /\ args.brightness = MaxBrightness
    /\ PWM_CH[1].CDTY = maxPwm
    /\ backlight_pwm_channel_instance.ul_duty = minPwm
    /\ minPwm < maxPwm

\* C10: no statement of SetBacklight changes beepTicksToGo, inBuzzer, the
\* channel-0 struct, registers or enable bit, or any pin; of channel 1 it writes
\* the period and duty registers and the enable bit only.
C10_SetBacklightFrame ==
    [][(pc' # pc /\ (pc \in SetBacklightLabels \/ pc' \in SetBacklightLabels)) =>
          /\ UNCHANGED <<beepTicksToGo, inBuzzer, buzzer_pwm_channel_instance, pins,
                         PWM_CLKA, tone>>
          /\ PWM_CH'[0] = PWM_CH[0]
          /\ PWM_CH'[1] = [PWM_CH[1] EXCEPT !.CPRD = PWM_CH'[1].CPRD,
                                            !.CDTY = PWM_CH'[1].CDTY,
                                            !.ena = PWM_CH'[1].ena]
          /\ (pc' = "idle") => PWM_CH'[1].ena]_vars

C10_Witness ==
    /\ pc = "l176" /\ Noisy /\ tone.valid /\ tone.eff > 0
    /\ PWM_CH[0].ena /\ ~PWM_CH[1].ena

C12_SuppressedTickChangesNothing ==
    [][TickFired =>
          /\ inBuzzer => UNCHANGED <<beepTicksToGo, inBuzzer, PWM_CH, pins, PWM_CLKA,
                                     buzzer_pwm_channel_instance>>
          /\ pc \in HalfProgrammed =>
                /\ inBuzzer
                /\ beepTicksToGo' = beepTicksToGo
                /\ PWM_CH'[0] = PWM_CH[0]
                /\ pins' = pins]_vars

C12_Witness ==
    /\ pc = "l134" /\ call.accepted /\ call.flagged /\ lastOp \in {"tick", "tock"}
    /\ inBuzzer /\ beepTicksToGo = 0 /\ PWM_CH[0].ena /\ pins.PB0 = "OUTPUT_0"

\* C13: once Init has run, inBuzzer is true exactly while a Beep call with a
\* non-zero volume is between its line 119 and its line 138: it is set when
\* the call reaches its first access to beepTicksToGo (line 120) and at every
\* access to beepTicksToGo or the buzzer hardware after it (lines 120-136), and
\* it is false whenever no such call is in progress, so no return of Beep
\* leaves the ticks suppressed.
C13_FlagExactlyWithinBeep ==
    initDone => (inBuzzer <=> pc \in BeepLabels \ {"l119"})

C13_Witness ==
    /\ initDone /\ pc = "idle" /\ ~inBuzzer /\ Noisy
    /\ tone.valid /\ tone.supp > 0 /\ tone.disturbed

\* C14 (as claimed): during one Beep() call at most one Tick() invocation is
\* skipped without decrementing a non-zero beepTicksToGo.
C14_AtMostOneTickSuppressedPerCall == call.supp <= 1

\* C14 (amended): every Tick() invocation that finds inBuzzer set is skipped,
\* however many of them one Beep() call collects, and none is made up later: an
\* invocation lowers beepTicksToGo by 1 when inBuzzer is clear and beepTicksToGo
\* is non-zero and leaves it alone otherwise, so that after a tone's Beep has
\* returned beepTicksToGo is the duration less the invocations not skipped.
C14_SuppressedTicksNeverMadeUp ==
    /\ [][TickFired =>
             beepTicksToGo' = IF inBuzzer \/ beepTicksToGo = 0 THEN beepTicksToGo
                              ELSE beepTicksToGo - 1]_vars
    /\ []((tone.valid /\ tone.eff <= tone.d) => beepTicksToGo = tone.d - tone.eff)

C14_Witness ==
    /\ call.supp = MaxSuppressed /\ MaxSuppressed > 1
    /\ ~call.accepted /\ pc = "l138"
    /\ tone.valid /\ tone.eff = 0 /\ beepTicksToGo = tone.d

\* The sequencer at rest with the piezo silent
SilentIdle == beepTicksToGo = 0 /\ ~PWM_CH[0].ena /\ PiezoLow

\* C15 (as claimed): with Tick() invoked again and again and every Beep() call
\* running to its return, a sounding tone (beepTicksToGo > 0) is always followed
\* by the idle state: beepTicksToGo 0, channel 0 disabled, both piezo pins low.
C15_SoundingLeadsToIdle == Noisy ~> SilentIdle

\* C15 (amended): the same, provided that from some time on no Tick()
\* invocation is skipped by a Beep() call holding inBuzzer while beepTicksToGo
\* is non-zero.
C15_SoundingLeadsToIdleUnlessSuppressed ==
    (<>[](call.supp = 0)) => (Noisy ~> SilentIdle)

C15_Witness ==
    /\ SilentIdle /\ pc = "idle" /\ lastOp \in {"tick", "tock"}
    /\ tone.valid /\ tone.d = MaxMs /\ tone.eff = tone.d /\ tone.supp > 0

\* C16 (as claimed): whenever no Beep call is in progress and beepTicksToGo > 0,
\* channel 0 is enabled, PB0 and PB5 are connected to the PWM peripheral, and
\* the channel holds what the Beep(f, d, v) that started the tone asked for:
\* period pwmClockFrequency/f, duty period/2 and, on both outputs, the dead
\* time period/2 - period*volumeTable[min(v, MaxVolume) - 1]/200.
C16_SoundingToneAsRequested ==
    (pc \notin BeepLabels /\ Noisy /\ tone.valid) =>
        /\ PWM_CH[0] = ProgrammedChannel(tone.f, Min(tone.v, MaxVolume))
        /\ pins.PB0 = "PERIPH_A" /\ pins.PB5 = "PERIPH_B"

\* C16 (amended): the same, with the dead time as the uint16_t of line 126
\* holds it: on both outputs the channel has period/2 - onTime modulo 2^16,
\* which is the difference itself only when that is below 2^16.
C16_SoundingToneAsStored ==
    (pc \notin BeepLabels /\ Noisy) =>
        LET period == pwmClockFrequency \div tone.f
            onTime == (period * volumeTable[Min(tone.v, MaxVolume)]) \div 200
            dead == period \div 2 - onTime
        IN  /\ tone.valid
            /\ PWM_CH[0].ena /\ PWM_CH[0].DTE
            /\ pins.PB0 = "PERIPH_A" /\ pins.PB5 = "PERIPH_B"
            /\ PWM_CH[0].CPRD = period
            /\ PWM_CH[0].CDTY = period \div 2
            /\ PWM_CH[0].DT = <<dead % U16, dead % U16>>
            /\ PWM_CH[0].DTUPD = PWM_CH[0].DT
            /\ dead < U16 => PWM_CH[0] = ProgrammedChannel(tone.f, Min(tone.v, MaxVolume))

C16_Witness ==
    /\ pc = "idle" /\ Noisy /\ tone.valid /\ tone.f = 13 /\ tone.v = 2
    /\ tone.d = MaxMs /\ tone.eff = tone.d - 1 /\ tone.disturbed
    /\ PWM_CH[0].ena /\ PWM_CH[0].CPRD = 153846
    /\ PWM_CH[0].DT = <<4464, 4464>>

\* C17: a Tick() invocation that finds beepTicksToGo at 0 leaves it at 0 and
\* touches no register, enable bit or pin; beepTicksToGo never goes below 0; and
\* whatever the sequence of calls, beepTicksToGo changes only when an accepted
\* Beep stores its duration at line 136 or when a Tick() invocation lowers it
\* by exactly 1.
C17_TicksChangeOnlyByBeepOrTick ==
    /\ [](beepTicksToGo \in 0..MaxMs)
    /\ [][(TickFired /\ beepTicksToGo = 0) =>
             UNCHANGED <<beepTicksToGo, inBuzzer, PWM_CH, pins, PWM_CLKA,
                         buzzer_pwm_channel_instance>>]_vars
    /\ [][beepTicksToGo' # beepTicksToGo =>
             \/ /\ ~TickFired
                /\ pc = "l136" /\ pc' = "l138" /\ call.accepted
                /\ beepTicksToGo = 0 /\ beepTicksToGo' = args.ms
             \/ /\ TickFired
                /\ beepTicksToGo' = beepTicksToGo - 1]_vars

C17_Witness ==
    /\ initDone /\ pc = "idle" /\ lastOp = "tock" /\ tone = NoTone
    /\ beepTicksToGo = 0 /\ PWM_CH[0].ena /\ pins.PB0 = "PERIPH_A"

\* C18: for every brightness 0..MaxBrightness the duty SetBacklight computes
\* and programs into channel 1 is below backlightPeriod; on the clamped path it
\* lies in minPwm..maxPwm, and minPwm < maxPwm < backlightPeriod.
C18_BacklightDutyInRange ==
    /\ IS_ER => (minPwm < maxPwm /\ maxPwm < backlightPeriod)
    /\ pc \in {"l175", "l176"} =>
          /\ backlight_pwm_channel_instance.ul_duty \in 0..(backlightPeriod - 1)
          /\ (IS_ER /\ ~args.read) =>
                backlight_pwm_channel_instance.ul_duty \in minPwm..maxPwm
    /\ (bl.valid /\ pc \notin SetBacklightLabels) =>
          /\ PWM_CH[1].CPRD = backlightPeriod
          /\ PWM_CH[1].CDTY \in 0..(backlightPeriod - 1)
          /\ ~bl.linear => PWM_CH[1].CDTY \in minPwm..maxPwm

C18_Witness ==
    /\ IS_ER /\ pc = "idle" /\ bl.valid /\ ~bl.linear /\ bl.b = 50
    /\ PWM_CH[1].ena /\ PWM_CH[1].CPRD = 100 /\ PWM_CH[1].CDTY = 67

\* C19: for every frequency of 30 Hz and above and every volume 1..MaxVolume,
\* the dead time Beep writes is period/2 - onTime exactly: the difference fits
\* the uint16_t of line 126 (it even stays below 2^15), and each half of the
\* word (deadTime << 16) | deadTime written to PWM_DT and PWM_DTUPD holds it.
C19_DeadTimeExact ==
    (pc \in BeepLabels \ {"l119", "l120", "l122"} /\ call.accepted
        /\ args.frequency >= 30 /\ args.volume \in 1..MaxVolume) =>
        LET period == pwmClockFrequency \div args.frequency
            dead == period \div 2 - (period * volumeTable[args.volume]) \div 200
        IN  /\ dead \in 0..(U16 - 1)
            /\ dead < 32768
            /\ args.deadTime = dead
            /\ pc \in {"l132", "l133", "l134", "l135", "l136", "l138"} =>
                  PWM_CH[0].DT = <<dead, dead>>
            /\ pc \in {"l133", "l134", "l135", "l136", "l138"} =>
                  PWM_CH[0].DTUPD = <<dead, dead>>

C19_Witness ==
    /\ pc = "l133" /\ call.accepted /\ args.frequency = 30 /\ args.volume = 1
    /\ args.period = 66666 /\ args.onTime = 999 /\ args.deadTime = 32334
    /\ PWM_CH[0].DT = <<32334, 32334>> /\ PWM_CH[0].DTUPD = <<32334, 32334>>

\* C20: until Init has run inBuzzer is true and beepTicksToGo is 0, and a
\* Tick() invocation made before Init changes neither of them nor any PWM
\* register, enable bit or pin, however many are made.
C20_TickBeforeInitChangesNothing ==
    /\ [](~initDone => (inBuzzer /\ beepTicksToGo = 0))
    /\ [][(~initDone /\ TickFired) =>
             UNCHANGED <<initDone, beepTicksToGo, inBuzzer, PWM_CH, pins, PWM_CLKA,
                         buzzer_pwm_channel_instance,
                         backlight_pwm_channel_instance>>]_vars

C20_Witness ==
    /\ ~initDone /\ lastOp = "tock" /\ inBuzzer /\ beepTicksToGo = 0
    /\ PWM_CH[0].ena /\ pins.PB0 = "PERIPH_A" /\ pins.PB5 = "PERIPH_B"

====
